---- MODULE Spec2Model ----
(***************************************************************************)
(* Model of lifxlan's hardware version query (version.go).                  *)
(*                                                                         *)
(* device.GetHardwareVersion is modelled step by step: one action per      *)
(* statement that touches the context, the connection or the device, so    *)
(* that the context's expiry (an action of the environment) interleaves    *)
(* with the read loop the way it does at run time.  The connection and the *)
(* network are the environment: every Read may time out, fail, or deliver  *)
(* any frame, among them the device's responses to this and to earlier     *)
(* requests (UDP reorders, delays and duplicates).                         *)
(***************************************************************************)
EXTENDS Integers, Sequences, FiniteSets, TLC

\* ------------------------------------------------------------------ bounds

\* GetHardwareVersion calls made on the device in one behaviour of Spec.
MaxCalls == 2
\* GetHardwareVersion calls made in one behaviour of SpecWrap: one more than
\* the sequence numbers there are, so that a number is issued a second time.
WrapCalls == 257
\* In SpecWrap the network holds back and duplicates the replies to the first
\* DupWindow requests: it may deliver them at any later Read.
DupWindow == 1
\* GetHardwareVersion calls made in one behaviour of SpecLive.
LiveCalls == 1
\* The board's cells have coordinates 0 .. GridMax.
GridMax == 2
\* Cells alive on a board.
MaxLive == 2
\* The per-call counters (reads, timeouts, discards, ...) saturate here.
MaxCount == 2

\* --------------------------------------------------------------- constants

\* Sequence numbers are uint8: NextSequence wraps modulo 256.
SeqMod == 256
\* Message type of the StateVersion reply.
StateVersion == 33
\* Message type of another reply a device sends (Acknowledgement).
Acknowledgement == 45
\* Bytes of a RawStateVersionPayload on the wire: three uint32.
RecordLen == 3 * 4

\* Source identifiers: the device handle carries the first, frames of other
\* clients the second.
Sources == {1, 2}
Messages == {StateVersion, Acknowledgement}

\* Payloads a frame may carry: a full record, a full record followed by one
\* more byte, a record cut one byte short, and no payload at all.
PayloadA == <<1, 0, 0, 0, 27, 0, 0, 0, 2, 1, 0, 0>>
PayloadB == <<1, 0, 0, 0, 49, 0, 0, 0, 0, 0, 1, 0, 255>>
PayloadShort == <<1, 0, 0, 0, 27, 0, 0, 0, 2, 1, 0>>
PayloadEmpty == << >>
Payloads == {PayloadA, PayloadB, PayloadShort, PayloadEmpty}

\* The zero value of RawHardwareVersion, which a new device holds.
ZeroVersion == [VendorID |-> 0, ProductID |-> 0, HardwareVersion |-> 0]

\* Saturating increment of a per-call counter.
Bump(n) == IF n < MaxCount THEN n + 1 ELSE n

\* ------------------------------------------------------------------- state

VARIABLES
    pc,            \* where GetHardwareVersion stands; "idle" between calls
    ctxDone,       \* ctx.Done() is closed
    conn,          \* "nil" | "caller" | "own": the conn the call works on
    source,        \* d.Source()
    sequence,      \* the device's sequence counter (NextSequence)
    seq,           \* the sequence number Send returned to this call
    err,           \* the error the last Dial, Send, SetReadDeadline or Read
                   \* returned; "nil" for none
    net,           \* requests sent so far: [seq, req], whose response the
                   \* network may deliver at any later Read, any number of times
    resp,          \* the frame the last Read returned
    version,       \* d.version
    ret,           \* what the last call returned; "none" while it runs
    calls,         \* calls begun
    entryVersion,  \* d.version when the running call began
    doneAtEntry,   \* the context was done when the running call began
    sends,         \* Send invocations of the running call
    reads,         \* Reads started by the running call
    readsAfterDone,\* Reads the running call started with the context done
    timeouts,      \* read timeouts the running call absorbed
    discards,      \* frames the running call discarded
    dials,         \* Dial invocations of the running call
    closes,        \* Close invocations of the running call
    resolved,      \* a call on the device has returned success
    productMap,    \* ProductMap, the registry: key -> descriptor
    op,            \* the last function applied: "none", "Key", "Parse",
                   \* "String" or "Count"
    keyIn,         \* the two (vendor, product) pairs last given to ProductMapKey
    keyOut,        \* the keys ProductMapKey returned for them
    arg,           \* the raw version Parse or String was last applied to
    parsed,        \* what the last Parse returned
    str,           \* what the last String returned
    board,         \* the animation's board: the cells that are alive
    cell,          \* the cell countNeighbours was last applied to
    count,         \* what it returned
    pairPc,        \* two concurrent calls on one device and one connection:
                   \* where each caller's GetHardwareVersion stands
    pairDone,      \* each caller's ctx.Done() is closed
    pairSeq,       \* the sequence number Send returned to each caller
    pairErr,       \* the error each caller's last Send, SetReadDeadline
                   \* or Read returned
    pairResp,      \* the frame each caller's last Read returned
    pairSeen,      \* the requests whose replies each caller has read
    pairRet,       \* what each caller's call returned; "none" before
    wire           \* the replies waiting on the shared connection

regVars == <<productMap, keyIn, keyOut, arg, parsed, str>>
lifeVars == <<board, cell, count>>
\* What no step of GetHardwareVersion touches.
pairVars == <<pairPc, pairDone, pairSeq, pairErr, pairResp, pairSeen, pairRet,
              wire>>
auxVars == <<op, regVars, lifeVars, pairVars>>
idVars == <<source, auxVars>>
devVars == <<idVars, sequence, version, resolved>>
callVars == <<ctxDone, conn, seq, calls, entryVersion, doneAtEntry>>
countVars == <<sends, reads, readsAfterDone, timeouts, discards, dials>>
vars == <<pc, ret, err, closes, net, resp, devVars, callVars, countVars>>
\* The state of the device handle and of the call on it.
queryVars == <<pc, ret, err, closes, net, resp, source, sequence, version,
               resolved, callVars, countVars>>

\* A frame as Read delivers it.  ok: ParseResponse accepts its bytes; seq,
\* source, msg, payload: the fields ParseResponse extracts; req: the call
\* whose request the device answered with it (0: no answer to a request of
\* this device handle).
NoFrame == [ok |-> FALSE, seq |-> 0, source |-> 0, msg |-> 0,
            payload |-> << >>, req |-> 0]
\* Bytes that ParseResponse rejects (too few to hold a header).
Garbage == [ok |-> FALSE, seq |-> 0, source |-> 0, msg |-> 0,
            payload |-> <<0>>, req |-> 0]

\* ---------------------------------------------------------- pure functions

\* binary.LittleEndian.Uint32 of the four bytes of p that start at index i.
LE32(p, i) == p[i] + 256 * p[i + 1] + 65536 * p[i + 2] + 16777216 * p[i + 3]

\* binary.Read(r, binary.LittleEndian, &raw) succeeds: the reader holds at
\* least the record's bytes (io.EOF on none, io.ErrUnexpectedEOF on fewer).
PayloadDecodes(p) == Len(p) >= RecordLen

\* A store that keeps the old HardwareVersion field.
DecodeVersion_Partial(p) ==
    [VendorID |-> LE32(p, 1), ProductID |-> LE32(p, 5),
     HardwareVersion |-> version.HardwareVersion]

\* raw.Version after a successful binary.Read: the first twelve bytes, as
\* three little-endian uint32; bytes after them are left unread.
DecodeVersion(p) ==
    [VendorID |-> LE32(p, 1), ProductID |-> LE32(p, 5),
     HardwareVersion |-> LE32(p, 9)]

\* A filter that does not look at the source.
Matches_NoSource(f, s, src) ==
    /\ f.seq = s
    /\ f.msg = StateVersion

\* A filter that looks at the message type alone.
Matches_AnyReply(f, s, src) == f.msg = StateVersion

\* A filter that does not look at the sequence number.
Matches_NoSeq(f, s, src) ==
    /\ f.source = src
    /\ f.msg = StateVersion

\* The filter of the read loop: the frame is the reply awaited.
Matches(f, s, src) ==
    /\ f.seq = s
    /\ f.source = src
    /\ f.msg = StateVersion

\* A select that never takes the ctx.Done() branch.
CtxSelect_Never(done) == FALSE

\* The select statement that polls the context: TRUE when the ctx.Done()
\* branch is taken.
CtxSelect(done) == done

\* A check that takes no error for a timeout.
CheckTimeoutError_Never(e) == FALSE

\* A check that takes every error for a timeout.
CheckTimeoutError_Always(e) == TRUE

\* CheckTimeoutError(err): the error is a timeout.
CheckTimeoutError(e) == e = "timeout"

\* An accessor that hands out nil while the device holds the zero version.
HardwareVersion_NilWhenEmpty ==
    [isNil |-> version = ZeroVersion, target |-> version]

\* d.HardwareVersion(): the address of d.version, which is never nil; target
\* is what it points to.
HardwareVersion == [isNil |-> FALSE, target |-> version]

\* NextSequence: the counter advances by one and wraps as a uint8.
NextSequence(n) == (n + 1) % SeqMod

\* ------------------------- the frames the network can deliver to a Read

\* The calls whose request a frame with these fields answers.
Origins(s, src, m) ==
    IF src = source /\ m = StateVersion /\ \E e \in net : e.seq = s
    THEN {e.req : e \in {x \in net : x.seq = s}}
    ELSE {0}

\* Sequence numbers of the frames considered: those of the requests sent,
\* and the one the device would issue next (no request carries it).
FrameSeqs == {e.seq : e \in net} \cup {NextSequence(sequence)}

\* Every frame a Read may return: bytes ParseResponse rejects, frames of
\* other clients, other message types, and the device's StateVersion replies
\* to any request sent so far, each with any payload.
Frames ==
    {Garbage} \cup
    UNION {UNION {{[ok |-> TRUE, seq |-> s, source |-> src, msg |-> m,
                    payload |-> p, req |-> r] :
                   p \in Payloads, r \in Origins(s, src, m)} :
                  src \in Sources, m \in Messages} : s \in FrameSeqs}

\* The well-formed replies of the device to the requests sent so far.
DeviceFrames ==
    {[ok |-> TRUE, seq |-> e.seq, source |-> source, msg |-> StateVersion,
      payload |-> PayloadA, req |-> e.req] : e \in net}

\* ------------------------------------------------- the capability registry

\* EmptyHardwareVersion: what String yields for the zero version.
EmptyHardwareVersion == "(0, 0, 0)"

\* Integers here stay below 2^31, so a uint32 is held as two 16-bit limbs and
\* a uint64 as four, most significant first.
LimbMod == 2 ^ 16

\* The limbs of a uint32 below 2^31.
U32(n) == <<n \div LimbMod, n % LimbMod>>

\* uint64(x) of a uint32 x.
Widen(x) == <<0, 0, x[1], x[2]>>

\* x << 32 of a uint64 x: the high 32 bits are shifted out.
Shl32(x) == <<x[3], x[4], 0, 0>>

\* a + b of two uint64, modulo 2^64.
Add64(a, b) ==
    LET s4 == a[4] + b[4]
        s3 == a[3] + b[3] + s4 \div LimbMod
        s2 == a[2] + b[2] + s3 \div LimbMod
        s1 == a[1] + b[1] + s2 \div LimbMod
    IN  <<s1 % LimbMod, s2 % LimbMod, s3 % LimbMod, s4 % LimbMod>>

\* A key whose shift is done in 32 bits, before the widening.
ProductMapKey_Narrow(vendor, product) ==
    Add64(Widen(<<0, 0>>), Widen(product))

\* ProductMapKey(vendor, product) == uint64(vendor)<<32 + uint64(product).
ProductMapKey(vendor, product) ==
    Add64(Shl32(Widen(vendor)), Widen(product))

\* raw.ProductMapKey().
RawProductMapKey(raw) == ProductMapKey(U32(raw.VendorID), U32(raw.ProductID))

\* The zero value of ParsedHardwareVersion.
ZeroDescriptor ==
    [ProductName |-> "", Color |-> FALSE, Infrared |-> FALSE,
     MultiZone |-> FALSE, Chain |-> FALSE, MinKelvin |-> 0, MaxKelvin |-> 0,
     Raw |-> ZeroVersion]

\* The registry as compiled in: descriptors without their Raw field set.
ProductMap0 ==
    (ProductMapKey(U32(1), U32(27)) :>
        [ProductName |-> "LIFX A19", Color |-> TRUE, Infrared |-> FALSE,
         MultiZone |-> FALSE, Chain |-> FALSE, MinKelvin |-> 2500,
         MaxKelvin |-> 9000, Raw |-> ZeroVersion])
    @@
    (ProductMapKey(U32(1), U32(31)) :>
        [ProductName |-> "LIFX Z", Color |-> TRUE, Infrared |-> FALSE,
         MultiZone |-> TRUE, Chain |-> FALSE, MinKelvin |-> 2500,
         MaxKelvin |-> 9000, Raw |-> ZeroVersion])

\* A Parse that leaves the Raw field of the registry's descriptor as it is.
Parse_NoStamp(raw) ==
    IF RawProductMapKey(raw) \notin DOMAIN productMap
    THEN [isNil |-> TRUE, target |-> ZeroDescriptor]
    ELSE [isNil |-> FALSE, target |-> productMap[RawProductMapKey(raw)]]

\* raw.Parse(): nil when the key is not in ProductMap, else the address of a
\* copy of the registered descriptor with its Raw field set to raw.
Parse(raw) ==
    IF RawProductMapKey(raw) \notin DOMAIN productMap
    THEN [isNil |-> TRUE, target |-> ZeroDescriptor]
    ELSE [isNil |-> FALSE,
          target |-> [productMap[RawProductMapKey(raw)] EXCEPT !.Raw = raw]]

\* fmt's %v of a uint32: its decimal digits.
Digits == <<"0", "1", "2", "3", "4", "5", "6", "7", "8", "9">>

RECURSIVE Itoa(_)
Itoa(n) ==
    IF n < 10 THEN Digits[n + 1]
    ELSE Itoa(n \div 10) \o Digits[(n % 10) + 1]

\* A String that puts a space between the name and the triple.
String_Spaced(raw) ==
    (IF Parse(raw).isNil THEN "" ELSE Parse(raw).target.ProductName \o " ")
    \o "(" \o Itoa(raw.VendorID) \o ", " \o Itoa(raw.ProductID) \o ", "
    \o Itoa(raw.HardwareVersion) \o ")"

\* raw.String(): the product name when raw.Parse() is not nil, then
\* fmt.Sprintf("(%v, %v, %v)", VendorID, ProductID, HardwareVersion).
String(raw) ==
    (IF Parse(raw).isNil THEN "" ELSE Parse(raw).target.ProductName)
    \o "(" \o Itoa(raw.VendorID) \o ", " \o Itoa(raw.ProductID) \o ", "
    \o Itoa(raw.HardwareVersion) \o ")"

\* The identifiers ProductMapKey is applied to: zero, one, 2^16 and 2^32 - 1.
IdSamples == {<<0, 0>>, <<0, 1>>, <<1, 0>>, <<65535, 65535>>}

\* The raw versions Parse and String are applied to: registered and
\* unregistered pairs, among them one that differs from a registered pair
\* only above bit 15 of the product id.
RawVersions ==
    {[VendorID |-> v, ProductID |-> q, HardwareVersion |-> h] :
        v \in {0, 1}, q \in {0, 27, 31, 65563}, h \in {0, 258}}

\* ------------------------------------------------- the animation's board

\* The offsets countNeighbours adds to a cell.
neighbours_Standard ==
    << [X |-> -1, Y |-> -1], [X |-> -1, Y |-> 0], [X |-> -1, Y |-> 1],
       [X |-> 0, Y |-> -1], [X |-> 0, Y |-> 1],
       [X |-> 1, Y |-> -1], [X |-> 1, Y |-> 0], [X |-> 1, Y |-> 1] >>

neighbours ==
    << [X |-> -1, Y |-> -1], [X |-> -1, Y |-> 0], [X |-> 1, Y |-> 0],
       [X |-> 0, Y |-> -1], [X |-> 0, Y |-> 1], [X |-> 1, Y |-> -1],
       [X |-> 1, Y |-> 0], [X |-> 1, Y |-> -1] >>

\* td.Width() and td.Height().
width == GridMax + 1
height == GridMax + 1

Cells == (0 .. width - 1) \X (0 .. height - 1)

\* The boards considered: those with at most MaxLive cells alive.
Boards == {b \in SUBSET Cells : Cardinality(b) <= MaxLive}

\* The offsets of the table, the eight adjacent directions, the offsets the
\* table holds more than once, and the directions it does not hold.
Offsets == {<<neighbours[i].X, neighbours[i].Y>> : i \in 1 .. Len(neighbours)}
Adjacent == ({-1, 0, 1} \X {-1, 0, 1}) \ {<<0, 0>>}
Duplicated ==
    {o \in Offsets :
        \E i, j \in 1 .. Len(neighbours) :
            /\ i < j
            /\ <<neighbours[i].X, neighbours[i].Y>> = o
            /\ <<neighbours[j].X, neighbours[j].Y>> = o}
Missing == Adjacent \ Offsets

\* countNeighbours(x, y): for each offset of the table in turn, one more
\* when the cell it leads to is on the board and alive.
RECURSIVE CountFrom(_, _, _)
CountFrom(i, x, y) ==
    IF i > Len(neighbours) THEN 0
    ELSE LET newX == x + neighbours[i].X
             newY == y + neighbours[i].Y
         IN  (IF newX < 0 \/ newX >= width THEN 0
              ELSE IF newY < 0 \/ newY >= height THEN 0
              ELSE IF <<newX, newY>> \in board THEN 1 ELSE 0)
             + CountFrom(i + 1, x, y)

countNeighbours(x, y) == CountFrom(1, x, y)

\* ------------------------------------------------------------------- Init

\* A new device handle, no call made on it.
InitQuery ==
    /\ pc = "idle"
    /\ ret = "none"
    /\ err = "nil"
    /\ ctxDone = FALSE
    /\ conn = "nil"
    /\ source = 1
    /\ sequence = 0
    /\ seq = 0
    /\ net = {}
    /\ resp = NoFrame
    /\ version = ZeroVersion
    /\ entryVersion = ZeroVersion
    /\ calls = 0
    /\ doneAtEntry = FALSE
    /\ sends = 0
    /\ reads = 0
    /\ readsAfterDone = 0
    /\ timeouts = 0
    /\ discards = 0
    /\ dials = 0
    /\ closes = 0
    /\ resolved = FALSE

\* The registry as compiled in, no function applied yet.
InitRegistry ==
    /\ productMap = ProductMap0
    /\ op = "none"
    /\ keyIn = <<<<U32(0), U32(0)>>, <<U32(0), U32(0)>>>>
    /\ keyOut = <<Widen(U32(0)), Widen(U32(0))>>
    /\ arg = ZeroVersion
    /\ parsed = [isNil |-> TRUE, target |-> ZeroDescriptor]
    /\ str = ""

\* An empty board.
InitBoard ==
    /\ board = {}
    /\ cell = <<0, 0>>
    /\ count = 0

\* The two callers of the concurrent exchange.
Callers == {1, 2}

\* No concurrent call made yet.
InitPair ==
    /\ pairPc = [i \in Callers |-> "idle"]
    /\ pairDone = [i \in Callers |-> FALSE]
    /\ pairSeq = [i \in Callers |-> 0]
    /\ pairErr = [i \in Callers |-> "nil"]
    /\ pairResp = [i \in Callers |-> NoFrame]
    /\ pairSeen = [i \in Callers |-> {}]
    /\ pairRet = [i \in Callers |-> "none"]
    /\ wire = {}

Init == InitQuery /\ InitRegistry /\ InitBoard /\ InitPair

\* ---------------------------------------------------------------- actions

\* A return that leaves the dialed connection open.
Return_NoClose(r) ==
    /\ pc' = "idle"
    /\ ret' = r
    /\ closes' = closes

\* A return statement: the call ends with r; the deferred newConn.Close()
\* runs when the call dialed its own connection.
Return(r) ==
    /\ pc' = "idle"
    /\ ret' = r
    /\ closes' = IF conn = "own" THEN Bump(closes) ELSE closes

\* A continue that gives up once MaxCount reads have been made.
Continue_Limited ==
    IF reads >= MaxCount
    THEN Return("read")
    ELSE pc' = "loop" /\ UNCHANGED <<ret, closes>>

\* A continue that goes back to sending the request.
Continue_Resend ==
    /\ pc' = "send"
    /\ UNCHANGED <<ret, closes>>

\* A continue statement of the read loop: on to the next iteration.
Continue ==
    /\ pc' = "loop"
    /\ UNCHANGED <<ret, closes>>

\* A caller invokes GetHardwareVersion(ctx, c): the context is live or
\* already done, the connection is the caller's or nil.
CallUpTo(limit, done, c) ==
    /\ pc = "idle"
    /\ calls < limit
    /\ pc' = "entry"
    /\ ret' = "none"
    /\ err' = "nil"
    /\ ctxDone' = done
    /\ doneAtEntry' = done
    /\ conn' = c
    /\ calls' = calls + 1
    /\ entryVersion' = version
    /\ seq' = 0
    /\ resp' = NoFrame
    /\ sends' = 0 /\ reads' = 0 /\ readsAfterDone' = 0 /\ timeouts' = 0
    /\ discards' = 0 /\ dials' = 0 /\ closes' = 0
    /\ UNCHANGED <<net, devVars>>

Call == \E done \in BOOLEAN, c \in {"nil", "caller"} : CallUpTo(MaxCalls, done, c)

\* The environment: the context of the running call expires or is cancelled.
Expire ==
    /\ pc # "idle"
    /\ ~ctxDone
    /\ ctxDone' = TRUE
    /\ UNCHANGED <<pc, ret, err, closes, net, resp, devVars, conn, seq, calls,
                   entryVersion, doneAtEntry, countVars>>

\* An entry that does not poll the context.
EntryCheck_Skip ==
    /\ pc = "entry"
    /\ pc' = IF conn = "nil" THEN "dial" ELSE "send"
    /\ UNCHANGED <<ret, err, closes, net, resp, devVars, callVars, countVars>>

\* The select on entry.
EntryCheck ==
    /\ pc = "entry"
    /\ IF CtxSelect(ctxDone)
       THEN Return("ctx")
       ELSE /\ pc' = IF conn = "nil" THEN "dial" ELSE "send"
            /\ UNCHANGED <<ret, closes>>
    /\ UNCHANGED <<err, net, resp, devVars, callVars, countVars>>

\* d.Dial() returns e.
DialReturn(e) ==
    /\ pc = "dial"
    /\ pc' = "dialret"
    /\ err' = e
    /\ dials' = Bump(dials)
    /\ UNCHANGED <<ret, closes, net, resp, devVars, callVars, sends, reads,
                   readsAfterDone, timeouts, discards>>

Dial == \E e \in {"nil", "dial"} : DialReturn(e)

\* The check of Dial's error: it is returned (no connection, nothing to
\* close), or the call owns newConn and defers its Close.
CheckDial ==
    /\ pc = "dialret"
    /\ IF err # "nil"
       THEN pc' = "idle" /\ ret' = err /\ UNCHANGED conn
       ELSE pc' = "postdial" /\ conn' = "own" /\ UNCHANGED ret
    /\ UNCHANGED <<err, closes, net, resp, devVars, ctxDone, seq, calls,
                   entryVersion, doneAtEntry, countVars>>

\* The select after dialing.
PostDialCheck ==
    /\ pc = "postdial"
    /\ IF CtxSelect(ctxDone)
       THEN Return("ctx")
       ELSE pc' = "send" /\ UNCHANGED <<ret, closes>>
    /\ UNCHANGED <<err, net, resp, devVars, callVars, countVars>>

\* d.Send(...) returns (seq, e).  With no error the device's counter has
\* advanced, the request is on the wire with the new sequence number, and the
\* device's reply to it may arrive at any later Read.  With an error (the
\* context is done, the frame cannot be built, the write fails) a sequence
\* number was taken or not.
SendReturn(e) ==
    /\ pc = "send"
    /\ pc' = "sendret"
    /\ err' = e
    /\ sends' = Bump(sends)
    /\ IF e = "nil"
       THEN /\ sequence' = NextSequence(sequence)
            /\ seq' = sequence'
            /\ net' = net \cup {[seq |-> sequence', req |-> calls]}
       ELSE /\ \E taken \in BOOLEAN :
                  sequence' = IF taken THEN NextSequence(sequence) ELSE sequence
            /\ UNCHANGED <<seq, net>>
    /\ UNCHANGED <<ret, closes, resp, idVars, version, resolved, ctxDone, conn, calls,
                   entryVersion, doneAtEntry, reads, readsAfterDone, timeouts,
                   discards, dials>>

Send == \E e \in {"nil", "send"} : SendReturn(e)

\* The check of Send's error.
CheckSend ==
    /\ pc = "sendret"
    /\ IF err # "nil"
       THEN Return(err)
       ELSE pc' = "loop" /\ UNCHANGED <<ret, closes>>
    /\ UNCHANGED <<err, net, resp, devVars, callVars, countVars>>

\* A loop that does not poll the context.
LoopCheck_Skip ==
    /\ pc = "loop"
    /\ pc' = "deadline"
    /\ UNCHANGED <<ret, err, closes, net, resp, devVars, callVars, countVars>>

\* The select at the top of the read loop.
LoopCheck ==
    /\ pc = "loop"
    /\ IF CtxSelect(ctxDone)
       THEN Return("ctx")
       ELSE pc' = "deadline" /\ UNCHANGED <<ret, closes>>
    /\ UNCHANGED <<err, net, resp, devVars, callVars, countVars>>

\* conn.SetReadDeadline(GetReadDeadline()) returns e, and the check of it.
SetReadDeadlineReturn(e) ==
    /\ pc = "deadline"
    /\ err' = e
    /\ IF e # "nil"
       THEN Return(e)
       ELSE pc' = "read" /\ UNCHANGED <<ret, closes>>
    /\ UNCHANGED <<net, resp, devVars, callVars, countVars>>

SetReadDeadline == \E e \in {"nil", "deadline"} : SetReadDeadlineReturn(e)

\* conn.Read(buf) is entered.
StartRead ==
    /\ pc = "read"
    /\ pc' = "reading"
    /\ reads' = Bump(reads)
    /\ readsAfterDone' = IF ctxDone THEN Bump(readsAfterDone) ELSE readsAfterDone
    /\ UNCHANGED <<ret, err, closes, net, resp, devVars, callVars, sends,
                   timeouts, discards, dials>>

\* conn.Read(buf) returns (n, e): with no error, the bytes of frame f.
ReadReturn(e, f) ==
    /\ pc = "reading"
    /\ pc' = "got"
    /\ err' = e
    /\ resp' = IF e = "nil" THEN f ELSE NoFrame
    /\ UNCHANGED <<ret, closes, net, devVars, callVars, countVars>>

Read ==
    \/ \E e \in {"timeout", "read"} : ReadReturn(e, NoFrame)
    \/ \E f \in Frames : ReadReturn("nil", f)

\* A decode error that is taken for one more frame to skip.
OnDecodeError_Poll ==
    /\ Continue
    /\ UNCHANGED <<version, timeouts, discards>>

\* binary.Read fails: the error is returned.
OnDecodeError ==
    /\ Return("decode")
    /\ UNCHANGED <<version, timeouts, discards>>

\* What follows Read's return: the check of its error, ParseResponse, the
\* filter on sequence, source and message type, binary.Read of the payload,
\* the store into d.version.
HandleRead ==
    /\ pc = "got"
    /\ IF err # "nil"
       THEN IF CheckTimeoutError(err)
            THEN /\ Continue
                 /\ timeouts' = Bump(timeouts)
                 /\ UNCHANGED <<version, discards>>
            ELSE Return(err) /\ UNCHANGED <<version, timeouts, discards>>
       ELSE IF ~resp.ok
       THEN Return("parse") /\ UNCHANGED <<version, timeouts, discards>>
       ELSE IF ~Matches(resp, seq, source)
       THEN /\ Continue
            /\ discards' = Bump(discards)
            /\ UNCHANGED <<version, timeouts>>
       ELSE IF ~PayloadDecodes(resp.payload)
       THEN OnDecodeError
       ELSE /\ version' = DecodeVersion(resp.payload)
            /\ Return("ok")
            /\ UNCHANGED <<timeouts, discards>>
    /\ resolved' = (resolved \/ ret' = "ok")
    /\ UNCHANGED <<err, net, resp, idVars, sequence, callVars, sends, reads,
                   readsAfterDone, dials>>

\* ProductMapKey is applied to the pairs a and b.
KeyCall(a, b) ==
    /\ op' = "Key"
    /\ keyIn' = <<a, b>>
    /\ keyOut' = <<ProductMapKey(a[1], a[2]), ProductMapKey(b[1], b[2])>>
    /\ UNCHANGED <<queryVars, productMap, arg, parsed, str, lifeVars, pairVars>>

\* A lookup that stores the stamped descriptor back into the registry.
ParseCall_WriteBack(r) ==
    /\ op' = "Parse"
    /\ arg' = r
    /\ parsed' = Parse(r)
    /\ productMap' =
          IF Parse(r).isNil THEN productMap
          ELSE [productMap EXCEPT ![RawProductMapKey(r)] = Parse(r).target]
    /\ UNCHANGED <<queryVars, keyIn, keyOut, str, lifeVars, pairVars>>

\* r.Parse() is called: the registry's descriptor is copied into the local
\* variable parsed, whose address is returned; ProductMap is only read.
ParseCall(r) ==
    /\ op' = "Parse"
    /\ arg' = r
    /\ parsed' = Parse(r)
    /\ UNCHANGED <<queryVars, productMap, keyIn, keyOut, str, lifeVars, pairVars>>

\* r.String() is called.
StringCall(r) ==
    /\ op' = "String"
    /\ arg' = r
    /\ str' = String(r)
    /\ UNCHANGED <<queryVars, productMap, keyIn, keyOut, parsed, lifeVars, pairVars>>

\* countNeighbours(c[1], c[2]) is called on the board.
CountCall(c) ==
    /\ op' = "Count"
    /\ cell' = c
    /\ count' = countNeighbours(c[1], c[2])
    /\ UNCHANGED <<queryVars, regVars, board, pairVars>>

\* ------------------- two concurrent calls on one device, one connection

\* What a step of one of two concurrent calls leaves alone, besides the
\* other caller's state.
pairFrame == <<pc, ret, err, closes, net, resp, source, resolved, callVars,
               countVars, op, regVars, lifeVars>>

\* The device's reply to caller i's request, which carries sequence number s:
\* the payload tells the two replies apart.
ReplyTo(i, s) ==
    [ok |-> TRUE, seq |-> s, source |-> source, msg |-> StateVersion,
     payload |-> IF i = 1 THEN PayloadA ELSE PayloadB, req |-> i]

\* Caller i's return statement; the connection is the callers', not closed.
PairReturn(i, r) ==
    /\ pairPc' = [pairPc EXCEPT ![i] = "idle"]
    /\ pairRet' = [pairRet EXCEPT ![i] = r]

\* Caller i invokes GetHardwareVersion(ctx, conn) with the shared connection.
PairCall(i, done) ==
    /\ pairPc[i] = "idle"
    /\ pairRet[i] = "none"
    /\ pairPc' = [pairPc EXCEPT ![i] = "entry"]
    /\ pairDone' = [pairDone EXCEPT ![i] = done]
    /\ UNCHANGED <<pairFrame, sequence, version, pairSeq, pairErr, pairResp,
                   pairSeen, pairRet, wire>>

\* Caller i's context expires or is cancelled.
PairExpire(i) ==
    /\ pairPc[i] # "idle"
    /\ ~pairDone[i]
    /\ pairDone' = [pairDone EXCEPT ![i] = TRUE]
    /\ UNCHANGED <<pairFrame, sequence, version, pairPc, pairSeq, pairErr,
                   pairResp, pairSeen, pairRet, wire>>

\* Caller i's select on entry; conn is not nil, so nothing is dialed.
PairEntry(i) ==
    /\ pairPc[i] = "entry"
    /\ IF CtxSelect(pairDone[i])
       THEN PairReturn(i, "ctx")
       ELSE pairPc' = [pairPc EXCEPT ![i] = "send"] /\ UNCHANGED pairRet
    /\ UNCHANGED <<pairFrame, sequence, version, pairDone, pairSeq, pairErr,
                   pairResp, pairSeen, wire>>

\* Caller i's d.Send(...) returns (seq, e).  With no error the device's
\* counter has advanced, this Send has a sequence number of its own, and the
\* device answers the request.  With an error a sequence number was taken
\* or not.
PairSend(i, e) ==
    /\ pairPc[i] = "send"
    /\ pairPc' = [pairPc EXCEPT ![i] = "sendret"]
    /\ pairErr' = [pairErr EXCEPT ![i] = e]
    /\ IF e = "nil"
       THEN /\ sequence' = NextSequence(sequence)
            /\ pairSeq' = [pairSeq EXCEPT ![i] = sequence']
            /\ wire' = wire \cup {ReplyTo(i, sequence')}
       ELSE /\ \E taken \in BOOLEAN :
                  sequence' = IF taken THEN NextSequence(sequence) ELSE sequence
            /\ UNCHANGED <<pairSeq, wire>>
    /\ UNCHANGED <<pairFrame, version, pairDone, pairResp, pairSeen, pairRet>>

\* Caller i's check of Send's error.
PairCheckSend(i) ==
    /\ pairPc[i] = "sendret"
    /\ IF pairErr[i] # "nil"
       THEN PairReturn(i, pairErr[i])
       ELSE pairPc' = [pairPc EXCEPT ![i] = "loop"] /\ UNCHANGED pairRet
    /\ UNCHANGED <<pairFrame, sequence, version, pairDone, pairSeq, pairErr,
                   pairResp, pairSeen, wire>>

\* Caller i's select at the top of the read loop.
PairLoop(i) ==
    /\ pairPc[i] = "loop"
    /\ IF CtxSelect(pairDone[i])
       THEN PairReturn(i, "ctx")
       ELSE pairPc' = [pairPc EXCEPT ![i] = "deadline"] /\ UNCHANGED pairRet
    /\ UNCHANGED <<pairFrame, sequence, version, pairDone, pairSeq, pairErr,
                   pairResp, pairSeen, wire>>

\* Caller i's conn.SetReadDeadline(GetReadDeadline()) returns e, and the
\* check of it.
PairSetReadDeadline(i, e) ==
    /\ pairPc[i] = "deadline"
    /\ pairErr' = [pairErr EXCEPT ![i] = e]
    /\ IF e # "nil"
       THEN PairReturn(i, e)
       ELSE pairPc' = [pairPc EXCEPT ![i] = "read"] /\ UNCHANGED pairRet
    /\ UNCHANGED <<pairFrame, sequence, version, pairDone, pairSeq, pairResp,
                   pairSeen, wire>>

\* Caller i's conn.Read(buf) returns (n, e): with no error, a frame f waiting
\* on the connection, whichever caller it answers.  The frame is gone from
\* the connection, unless the network duplicated it.
PairRead(i, e, f, dup) ==
    /\ pairPc[i] = "read"
    /\ pairPc' = [pairPc EXCEPT ![i] = "got"]
    /\ pairErr' = [pairErr EXCEPT ![i] = e]
    /\ pairResp' = [pairResp EXCEPT ![i] = IF e = "nil" THEN f ELSE NoFrame]
    /\ pairSeen' = [pairSeen EXCEPT
                       ![i] = IF e = "nil" THEN @ \cup {f.req} ELSE @]
    /\ wire' = IF e = "nil" /\ ~dup THEN wire \ {f} ELSE wire
    /\ UNCHANGED <<pairFrame, sequence, version, pairDone, pairSeq, pairRet>>

\* What follows caller i's Read: the check of its error, ParseResponse, the
\* filter, binary.Read of the payload into the local raw.
PairHandle(i) ==
    /\ pairPc[i] = "got"
    /\ IF pairErr[i] # "nil"
       THEN IF CheckTimeoutError(pairErr[i])
            THEN pairPc' = [pairPc EXCEPT ![i] = "loop"] /\ UNCHANGED pairRet
            ELSE PairReturn(i, pairErr[i])
       ELSE IF ~pairResp[i].ok
       THEN PairReturn(i, "parse")
       ELSE IF ~Matches(pairResp[i], pairSeq[i], source)
       THEN pairPc' = [pairPc EXCEPT ![i] = "loop"] /\ UNCHANGED pairRet
       ELSE IF ~PayloadDecodes(pairResp[i].payload)
       THEN PairReturn(i, "decode")
       ELSE pairPc' = [pairPc EXCEPT ![i] = "VendorID"] /\ UNCHANGED pairRet
    /\ UNCHANGED <<pairFrame, sequence, version, pairDone, pairSeq, pairErr,
                   pairResp, pairSeen, wire>>

\* Caller i's d.version = raw.Version.  Nothing orders it with the other
\* caller's store, so the three words are written one at a time.
PairStore(i) ==
    /\ pairPc[i] \in {"VendorID", "ProductID", "HardwareVersion"}
    /\ version' = [version EXCEPT
                      ![pairPc[i]] = DecodeVersion(pairResp[i].payload)[pairPc[i]]]
    /\ IF pairPc[i] = "VendorID"
       THEN pairPc' = [pairPc EXCEPT ![i] = "ProductID"] /\ UNCHANGED pairRet
       ELSE IF pairPc[i] = "ProductID"
       THEN pairPc' = [pairPc EXCEPT ![i] = "HardwareVersion"] /\ UNCHANGED pairRet
       ELSE PairReturn(i, "ok")
    /\ UNCHANGED <<pairFrame, sequence, pairDone, pairSeq, pairErr, pairResp,
                   pairSeen, wire>>

\* ------------------------------------------------------------ specifications

Next ==
    \/ Call
    \/ Expire
    \/ EntryCheck
    \/ Dial
    \/ CheckDial
    \/ PostDialCheck
    \/ Send
    \/ CheckSend
    \/ LoopCheck
    \/ SetReadDeadline
    \/ StartRead
    \/ Read
    \/ HandleRead

Spec == Init /\ [][Next]_vars

\* The steps of the call itself (all but a new call and the context's expiry).
Program ==
    \/ EntryCheck
    \/ Dial
    \/ CheckDial
    \/ PostDialCheck
    \/ Send
    \/ CheckSend
    \/ LoopCheck
    \/ SetReadDeadline
    \/ StartRead
    \/ Read
    \/ HandleRead

\* One call or more, as in Spec, under fairness: the call keeps running and
\* every Dial, Send, SetReadDeadline and Read returns (a Read no later than
\* its deadline), so no step of the call is postponed for ever.
CallLive ==
    \E done \in BOOLEAN, c \in {"nil", "caller"} : CallUpTo(LiveCalls, done, c)

NextLive ==
    \/ CallLive
    \/ Expire
    \/ EntryCheck
    \/ Dial
    \/ CheckDial
    \/ PostDialCheck
    \/ Send
    \/ CheckSend
    \/ LoopCheck
    \/ SetReadDeadline
    \/ StartRead
    \/ Read
    \/ HandleRead

SpecLive == Init /\ [][NextLive]_vars /\ WF_vars(Program)

\* Exchange after exchange on the caller's connection with the context live
\* and no I/O error, the network delivering at every Read the device's reply
\* to the current request or a delayed copy of its reply to one of the first
\* requests: long enough for the uint8 sequence counter to wrap.
CallWrap == CallUpTo(WrapCalls, FALSE, "caller")
SendWrap == SendReturn("nil")
SetReadDeadlineWrap == SetReadDeadlineReturn("nil")
ReadWrap ==
    \E f \in {g \in DeviceFrames : g.req <= DupWindow \/ g.req = calls} :
        ReadReturn("nil", f)

NextWrap ==
    \/ CallWrap
    \/ EntryCheck
    \/ SendWrap
    \/ CheckSend
    \/ LoopCheck
    \/ SetReadDeadlineWrap
    \/ StartRead
    \/ ReadWrap
    \/ HandleRead

SpecWrap == Init /\ [][NextWrap]_vars

\* ProductMapKey on any two pairs of identifiers.
KeyAny == \E a \in IdSamples \X IdSamples, b \in IdSamples \X IdSamples : KeyCall(a, b)

NextKey == KeyAny

SpecKey == Init /\ [][NextKey]_vars

\* Parse and String, in any order, any number of times, on any raw version.
ParseAny == \E r \in RawVersions : ParseCall(r)
StringAny == \E r \in RawVersions : StringCall(r)

NextRegistry ==
    \/ ParseAny
    \/ StringAny

SpecRegistry == Init /\ [][NextRegistry]_vars

\* countNeighbours on any cell of any board.
InitLife == InitQuery /\ InitRegistry /\ InitPair /\ board \in Boards /\ cell = <<0, 0>> /\ count = 0
CountAny == \E c \in Cells : CountCall(c)

NextLife == CountAny

SpecLife == InitLife /\ [][NextLife]_vars

\* Two callers, each making one call, their steps interleaved in any order.
PairCallAny == \E i \in Callers, done \in BOOLEAN : PairCall(i, done)
PairExpireAny == \E i \in Callers : PairExpire(i)
PairEntryAny == \E i \in Callers : PairEntry(i)
PairSendAny == \E i \in Callers, e \in {"nil", "send"} : PairSend(i, e)
PairCheckSendAny == \E i \in Callers : PairCheckSend(i)
PairLoopAny == \E i \in Callers : PairLoop(i)
PairSetReadDeadlineAny ==
    \E i \in Callers, e \in {"nil", "deadline"} : PairSetReadDeadline(i, e)
PairReadAny ==
    \/ \E i \in Callers, e \in {"timeout", "read"} : PairRead(i, e, NoFrame, FALSE)
    \/ \E i \in Callers, f \in wire, dup \in BOOLEAN : PairRead(i, "nil", f, dup)
PairHandleAny == \E i \in Callers : PairHandle(i)
PairStoreAny == \E i \in Callers : PairStore(i)

NextPair ==
    \/ PairCallAny
    \/ PairExpireAny
    \/ PairEntryAny
    \/ PairSendAny
    \/ PairCheckSendAny
    \/ PairLoopAny
    \/ PairSetReadDeadlineAny
    \/ PairReadAny
    \/ PairHandleAny
    \/ PairStoreAny

SpecPair == Init /\ [][NextPair]_vars

\* ------------------------------------------------------------------ claims

\* Where the call stands inside the read loop.
LoopPcs == {"loop", "deadline", "read", "reading", "got"}

\* The frame is the reply awaited: sequence, source and message type match.
IsReply(f) ==
    f.ok /\ f.seq = seq /\ f.source = source /\ f.msg = StateVersion

\* C1: a call invokes Send at most once, and never from inside the read
\* loop: wherever the loop stands, exactly one Send has been made, whatever
\* timeouts, discarded frames and errors occurred.
C1_OneSend ==
    /\ sends <= 1
    /\ pc \in LoopPcs => sends = 1

C1_Witness ==
    pc = "idle" /\ ret = "ok" /\ timeouts >= 1 /\ discards >= 1 /\ sends = 1

\* C2: while the context is live, a read timeout never ends the call (it is
\* absorbed: the loop goes on, nothing is returned), and once Read has
\* delivered a well-formed reply with the matching sequence and source the
\* call has returned success after exactly one Send, with the frame's version
\* stored; this for any number of timeouts before the frame.
C2_TimeoutsAbsorbed ==
    (calls > 0 /\ ~ctxDone) =>
        /\ err = "timeout" => pc \in {"got", "loop", "deadline"} /\ ret = "none"
        /\ (IsReply(resp) /\ Len(resp.payload) >= RecordLen /\ pc # "got") =>
              /\ pc = "idle"
              /\ ret = "ok"
              /\ sends = 1
              /\ version = DecodeVersion(resp.payload)

C2_Witness ==
    /\ pc = "idle" /\ ret = "ok" /\ ~ctxDone
    /\ timeouts = MaxCount /\ discards = 0 /\ sends = 1
    /\ resp.payload = PayloadB /\ version.ProductID = 49

\* C3: a call whose context is done on entry gets no further than the entry
\* select: it dials nothing, sends nothing, reads nothing, leaves d.version
\* as it was, and returns the context's error.
C3_DoneOnEntry ==
    doneAtEntry =>
        /\ pc \in {"entry", "idle"}
        /\ dials = 0 /\ sends = 0 /\ reads = 0
        /\ version = entryVersion
        /\ pc = "idle" => ret = "ctx"

C3_Witness ==
    /\ pc = "idle" /\ doneAtEntry /\ ret = "ctx"
    /\ calls = 2 /\ version # ZeroVersion

\* C4 as stated: no Read is ever started once the context is done.
C4_NoReadAfterDone == readsAfterDone = 0

\* C4 as amended: a call starts at most one Read with the context done (the
\* Read of the iteration whose select ran before the expiry); the select of
\* the next iteration ends the call.
C4_AtMostOneReadAfterDone == readsAfterDone <= 1

C4_Witness == pc = "idle" /\ ret = "ctx" /\ readsAfterDone = 1 /\ reads = 2

\* C5: once the context of a running call is done the call returns, however
\* many timeouts and non-matching frames the connection delivers.
C5_DoneUnblocks == (pc # "idle" /\ ctxDone) ~> (pc = "idle")

C5_Witness ==
    /\ pc = "idle" /\ ret = "ctx" /\ ~doneAtEntry
    /\ timeouts = MaxCount /\ discards = MaxCount

\* C6: the step that handles a frame ParseResponse accepted ends the call
\* (with success or with the payload's decode error) exactly when sequence,
\* source and message type all match; any other frame takes the call back to
\* the top of the loop with nothing returned, d.version, the sequence counter
\* and the requests sent unchanged, and no Send.
C6_AcceptIffMatch ==
    [][(pc = "got" /\ pc' # "got" /\ err = "nil" /\ resp.ok) =>
          IF resp.seq = seq /\ resp.source = source /\ resp.msg = StateVersion
          THEN pc' = "idle" /\ ret' \in {"ok", "decode"}
          ELSE /\ pc' = "loop"
               /\ ret' = "none"
               /\ version' = version
               /\ sends' = sends
               /\ sequence' = sequence
               /\ net' = net]_vars

C6_Witness ==
    /\ pc = "loop" /\ discards >= 1
    /\ resp.ok /\ resp.seq = seq /\ resp.msg = StateVersion
    /\ resp.source # source

\* C7 as stated: the frame a call accepts is the device's reply to that
\* call's own request, never the reply to an earlier one (consecutive calls
\* never overlap, so no two requests are outstanding together).
C7_NeverStale == (pc = "idle" /\ ret = "ok") => resp.req = calls

\* C7 as amended: a call accepts the reply to an earlier request only when
\* that request carried the sequence number of the current one, that is when
\* the uint8 counter has wrapped round between the two.
C7_StaleOnlyAfterWrap ==
    (pc = "idle" /\ ret = "ok" /\ resp.req # calls) =>
        /\ [seq |-> seq, req |-> resp.req] \in net
        /\ calls - resp.req >= SeqMod

C7_Witness ==
    /\ pc = "idle" /\ ret = "ok"
    /\ calls = SeqMod + 1 /\ resp.req = 1 /\ resp.seq = seq

\* C8: d.version changes only in the step that returns success, and then
\* its three fields are those of the accepted frame's payload; a call that
\* returns an error leaves d.version at its value on entry.
C8_VersionOnlyOnSuccess ==
    [][/\ version' # version =>
             /\ pc = "got" /\ pc' = "idle" /\ ret' = "ok"
             /\ IsReply(resp)
             /\ version'.VendorID = LE32(resp.payload, 1)
             /\ version'.ProductID = LE32(resp.payload, 5)
             /\ version'.HardwareVersion = LE32(resp.payload, 9)
       /\ (pc # "idle" /\ pc' = "idle" /\ ret' # "ok") =>
             version' = entryVersion]_vars

C8_Witness ==
    /\ pc = "idle" /\ ret = "ok" /\ calls = 2
    /\ entryVersion # ZeroVersion
    /\ version.ProductID # entryVersion.ProductID
    /\ version.HardwareVersion # entryVersion.HardwareVersion

\* C9: a reply with matching sequence, source and message type whose
\* payload is shorter than the version record ends the call with the decode
\* error: the loop does not go on, and d.version is as it was on entry.
C9_ShortPayload ==
    (IsReply(resp) /\ Len(resp.payload) < RecordLen /\ pc # "got") =>
        /\ pc = "idle"
        /\ ret = "decode"
        /\ version = entryVersion

C9_Witness ==
    /\ pc = "idle" /\ ret = "decode"
    /\ resp.payload = PayloadShort /\ entryVersion # ZeroVersion

\* C10: once an error other than a read timeout has been checked (of Dial,
\* Send, SetReadDeadline or Read), or ParseResponse has rejected a frame, the
\* call is over and has returned that error: the loop stands at no later
\* step with such an error behind it.
C10_ErrorsTerminal ==
    /\ (err \notin {"nil", "timeout"} /\ pc \notin {"dialret", "sendret", "got"}) =>
          pc = "idle" /\ ret = err
    /\ (resp = Garbage /\ pc # "got") => pc = "idle" /\ ret = "parse"

C10_Witness == pc = "idle" /\ ret = "read" /\ timeouts >= 1 /\ discards >= 1

\* C11 as stated: until a call on the device has returned success, also
\* after failed and cancelled calls, d.HardwareVersion() is nil.
C11_NilUntilResolved == ~resolved => HardwareVersion.isNil

\* C11 as amended: d.HardwareVersion() is never nil; until a call on the
\* device has returned success it points to the zero version, whose String
\* is EmptyHardwareVersion.
C11_ZeroUntilResolved ==
    /\ ~HardwareVersion.isNil
    /\ ~resolved =>
          /\ HardwareVersion.target = ZeroVersion
          /\ String(HardwareVersion.target) = EmptyHardwareVersion

C11_Witness ==
    pc = "idle" /\ calls = 2 /\ ret = "ctx" /\ ~resolved /\ reads >= 1

\* C17: a call given a nil connection dials once and closes what it dialed
\* exactly when it returns, on every return that follows a successful Dial;
\* found done right after dialing, the context ends the call with nothing
\* sent; a call given the caller's connection never dials and never closes.
C17_ConnOwnership ==
    [][/\ conn' = "caller" => dials' = 0 /\ closes' = 0
       /\ conn' = "nil" => closes' = 0 /\ dials' <= 1 /\ sends' = 0
       /\ conn' = "own" =>
             /\ dials' = 1
             /\ closes' = IF pc' = "idle" THEN 1 ELSE 0
       /\ (pc = "postdial" /\ ctxDone /\ pc' # "postdial") =>
             pc' = "idle" /\ ret' = "ctx" /\ sends' = 0 /\ closes' = 1]_vars

C17_Witness ==
    /\ pc = "idle" /\ conn = "own" /\ ret = "ctx"
    /\ dials = 1 /\ sends = 0 /\ closes = 1

\* C18: the read loop is left for a return only by the select finding the
\* context done, by an error of SetReadDeadline, by a Read error that is no
\* timeout, by a frame ParseResponse rejects, or by a frame that matches;
\* read timeouts and frames that do not match never end the call, however
\* many there have been.
C18_NoRetryLimit ==
    [][(pc \in LoopPcs /\ pc' = "idle") =>
          \/ pc = "loop" /\ ctxDone /\ ret' = "ctx"
          \/ pc = "deadline" /\ err' = "deadline" /\ ret' = "deadline"
          \/ pc = "got" /\ err = "read" /\ ret' = "read"
          \/ pc = "got" /\ err = "nil" /\ ~resp.ok /\ ret' = "parse"
          \/ pc = "got" /\ err = "nil" /\ IsReply(resp)
                /\ ret' \in {"ok", "decode"}]_vars

C18_Witness ==
    /\ pc = "loop" /\ ~ctxDone
    /\ reads = MaxCount /\ timeouts = MaxCount /\ discards = MaxCount

\* C12: of two concurrent calls on one shared connection, with distinct
\* sequence numbers, each goes on to store and returns success only with the
\* reply to its own request in hand, every word it stores into d.version is
\* taken from that reply, and each call ends with success or with an error.
C12_OwnReplyOnly ==
    [][\A i \in Callers :
          /\ (pairPc'[i] \in {"VendorID", "ProductID", "HardwareVersion"}
                \/ pairRet'[i] = "ok") =>
                /\ pairResp'[i].req = i
                /\ pairResp'[i].seq = pairSeq'[i]
          /\ (pairPc[i] \in {"VendorID", "ProductID", "HardwareVersion"}
                /\ pairPc'[i] # pairPc[i]) =>
                version'[pairPc[i]] =
                    DecodeVersion(ReplyTo(i, pairSeq[i]).payload)[pairPc[i]]
          /\ pairRet'[i] \in {"none", "ok", "ctx", "send", "deadline",
                              "read", "parse", "decode"}
          /\ (pairPc[i] # "idle" /\ pairPc'[i] = "idle") => pairRet'[i] # "none"
          /\ \A j \in Callers :
                (i # j /\ pairSeq'[i] # 0 /\ pairSeq'[j] # 0) =>
                    pairSeq'[i] # pairSeq'[j]]_vars

\* Each caller has read the reply to the other's request, and both calls
\* have returned success.
C12_Witness ==
    /\ pairRet[1] = "ok" /\ pairRet[2] = "ok"
    /\ 2 \in pairSeen[1] /\ 1 \in pairSeen[2]

\* C13: the key of (vendor, product) holds the vendor id in its high 32 bits
\* and the product id in its low 32 bits, nothing carried from one half into
\* the other; the keys of two different pairs differ.
C13_KeyInjective ==
    /\ \A i \in {1, 2} :
          keyOut[i] = <<keyIn[i][1][1], keyIn[i][1][2],
                        keyIn[i][2][1], keyIn[i][2][2]>>
    /\ keyIn[1] # keyIn[2] => keyOut[1] # keyOut[2]

\* Vendor 1 and vendor 0, both with product 2^32 - 1.
C13_Witness ==
    /\ op = "Key"
    /\ keyIn = << <<U32(1), <<65535, 65535>>>>, <<U32(0), <<65535, 65535>>>> >>
    /\ keyOut = << <<0, 1, 65535, 65535>>, <<0, 0, 65535, 65535>> >>

\* C14: Parse returns nil exactly when the key of the raw version is not in
\* ProductMap; otherwise the descriptor it returns has the name and the
\* features of the registered entry, and its Raw field is the raw version
\* given, HardwareVersion included.
C14_ParseLookup ==
    op = "Parse" =>
        /\ parsed.isNil <=> ~(arg.VendorID = 1 /\ arg.ProductID \in {27, 31})
        /\ ~parsed.isNil =>
              /\ parsed.target.Raw = arg
              /\ parsed.target.Raw.HardwareVersion = arg.HardwareVersion
              /\ \A f \in {"ProductName", "Color", "Infrared", "MultiZone",
                           "Chain", "MinKelvin", "MaxKelvin"} :
                    parsed.target[f] = ProductMap0[RawProductMapKey(arg)][f]

C14_Witness ==
    /\ op = "Parse"
    /\ arg = [VendorID |-> 1, ProductID |-> 27, HardwareVersion |-> 258]
    /\ ~parsed.isNil
    /\ parsed.target.ProductName = "LIFX A19"
    /\ parsed.target.Raw.HardwareVersion = 258

\* C15: whatever Parse and String calls have been made, ProductMap is what
\* it was at the start, no entry's Raw field set; the descriptor of the last
\* Parse carries the raw version of that Parse, not of an earlier lookup.
C15_RegistryUnchanged ==
    /\ productMap = ProductMap0
    /\ \A k \in DOMAIN productMap : productMap[k].Raw = ZeroVersion
    /\ (op = "Parse" /\ ~parsed.isNil) => parsed.target.Raw = arg

\* A String of the registered version with hardware version 258 came before
\* a Parse of the same product with hardware version 0.
C15_Witness ==
    /\ op = "Parse"
    /\ str = "LIFX A19(1, 27, 258)"
    /\ arg = [VendorID |-> 1, ProductID |-> 27, HardwareVersion |-> 0]
    /\ ~parsed.isNil
    /\ parsed.target.Raw.HardwareVersion = 0

\* C16: String is the product name followed at once by "(v, p, h)" when the
\* version is registered, "(v, p, h)" alone when it is not, and for the zero
\* version exactly "(0, 0, 0)", which is EmptyHardwareVersion.
C16_StringFormat ==
    op = "String" =>
        /\ str = (IF arg.VendorID = 1 /\ arg.ProductID = 27 THEN "LIFX A19"
                  ELSE IF arg.VendorID = 1 /\ arg.ProductID = 31 THEN "LIFX Z"
                  ELSE "")
                 \o "(" \o Itoa(arg.VendorID) \o ", " \o Itoa(arg.ProductID)
                 \o ", " \o Itoa(arg.HardwareVersion) \o ")"
        /\ arg = ZeroVersion =>
              str = "(0, 0, 0)" /\ str = EmptyHardwareVersion
        /\ arg = [VendorID |-> 1, ProductID |-> 27, HardwareVersion |-> 258]
              => str = "LIFX A19(1, 27, 258)"
        /\ arg = [VendorID |-> 1, ProductID |-> 65563, HardwareVersion |-> 0]
              => str = "(1, 65563, 0)"

C16_Witness ==
    /\ op = "String"
    /\ arg = [VendorID |-> 1, ProductID |-> 27, HardwareVersion |-> 258]
    /\ str = "LIFX A19(1, 27, 258)"

\* C19 as stated: the table countNeighbours goes through has one offset
\* duplicated and one adjacent direction not in it.
C19_OneDupOneMissing ==
    op = "Count" =>
        /\ Cardinality(Duplicated) = 1
        /\ Cardinality(Missing) = 1

\* C19 as amended: the table's eight entries are six directions; (1, 0) and
\* (1, -1) are there twice, (-1, 1) and (1, 1) are not there; countNeighbours
\* counts the former two cells twice and the latter two never.
C19_TwoDupTwoMissing ==
    /\ Len(neighbours) = 8
    /\ Cardinality(Offsets) = 6
    /\ Duplicated = {<<1, 0>>, <<1, -1>>}
    /\ Missing = {<<-1, 1>>, <<1, 1>>}
    /\ op = "Count" =>
          count =
            LET Live(dx, dy) ==
                    IF <<cell[1] + dx, cell[2] + dy>> \in board THEN 1 ELSE 0
            IN  Live(-1, -1) + Live(-1, 0) + Live(0, -1) + Live(0, 1)
                + 2 * Live(1, 0) + 2 * Live(1, -1)

\* The middle cell with its east and its south-west neighbour alive: two
\* neighbours, counted as two for the east one alone.
C19_Witness ==
    /\ op = "Count"
    /\ cell = <<1, 1>>
    /\ board = {<<2, 1>>, <<0, 2>>}
    /\ count = 2

====
